---- MODULE Spec2Model ----
(***************************************************************************)
(* The /auction handler of prebid-server (pbs_light.go): the fan-out to    *)
(* the bidder adapters, the drain of the result channel, the creative      *)
(* cache step, the targeting keys and the response.                        *)
(*                                                                         *)
(* One auction is one behaviour.  The handler goroutine is the program     *)
(* counter hpc; every dispatched bidder goroutine has its own position in  *)
(* tasks.  The unbuffered channel ch is a rendezvous: Receive(i) is the    *)
(* send of task i and the receive of the handler in one step.              *)
(***************************************************************************)
EXTENDS Integers, Sequences, FiniteSets, TLC

(***************************************************************************)
(* Bounds of the model.                                                    *)
(***************************************************************************)
MaxBidders == 2
MaxPrice == 2
MaxBids == 2

(***************************************************************************)
(* Constants of the program.                                               *)
(***************************************************************************)
defaultPriceGranularity == "med"
hbpbConstantKey == "hb_pb"
hbCreativeLoadMethodConstantKey == "hb_creative_loadtype"
hbBidderConstantKey == "hb_bidder"
hbCacheIdConstantKey == "hb_cache_id"
hbSizeConstantKey == "hb_size"
hbCreativeLoadMethodHTML == "html"
hbCreativeLoadMethodDemandSDK == "demand_sdk"

DeadlineExceeded == "context deadline exceeded"
Canceled == "context canceled"
BidderFailure == "bidder failure"
CacheDown == "cache unavailable"

min(x, y) == IF x < y THEN x ELSE y

(***************************************************************************)
(* The adapter registry.  The adapters themselves are outside the          *)
(* handler; what the handler uses of one is its family name, its user sync *)
(* info and its skipNoCookies policy.                                      *)
(***************************************************************************)
exchanges ==
  [appnexus |-> [FamilyName |-> "adnxs", SkipNoCookies |-> FALSE,
                 UsersyncInfo |-> "sync-adnxs"],
   audienceNetwork |-> [FamilyName |-> "audienceNetwork", SkipNoCookies |-> TRUE,
                        UsersyncInfo |-> "sync-audienceNetwork"]]

Registered(code) == code \in DOMAIN exchanges

Families == {exchanges[c].FamilyName : c \in DOMAIN exchanges}

\* bidder codes a request may name: the registered ones and one that is not
BidderCodes == DOMAIN exchanges \cup {"unknownBidder"}

(***************************************************************************)
(* Values of the request.                                                  *)
(***************************************************************************)
Size(w, h) == [W |-> w, H |-> h]

AdUnit(code, bidId, sizes) == [Code |-> code, BidID |-> bidId, Sizes |-> sizes]

\* the ad unit lists of the requests: u1 declares one size, u2 two sizes
AdUnitLists ==
  {<<AdUnit("u1", "b1", <<Size(3, 2)>>), AdUnit("u2", "b2", <<Size(3, 2), Size(1, 1)>>)>>,
   <<AdUnit("u1", "b1", <<Size(0, 0)>>), AdUnit("u2", "b2", <<>>)>>}

NewBidder(code, adUnits) ==
  [BidderCode |-> code, AdUnits |-> adUnits, ResponseTime |-> 0, NumBids |-> 0,
   NoCookie |-> FALSE, NoBid |-> FALSE, Error |-> "", UsersyncInfo |-> ""]

\* sequences of pairwise different bidder codes, of length 0..MaxBidders
CodeSeqs ==
  UNION {{s \in [1..n -> BidderCodes] : \A i, j \in 1..n : i # j => s[i] # s[j]} :
           n \in 0..MaxBidders}

\* the user sync cookie: per family no uid, an expired uid or a live uid
Cookies == [Families -> {"none", "expired", "live"}]

GetUID(cookie, family) == IF cookie[family] = "none" THEN "" ELSE "uid-" \o family

LiveSyncCount(cookie) == Cardinality({f \in Families : cookie[f] = "live"})

(***************************************************************************)
(* Bids.  A bid list is nil or a sequence, as a Go slice is.               *)
(***************************************************************************)
EmptyMap == [k \in {} |-> ""]

NilList == [isNil |-> TRUE, elems |-> <<>>]

List(s) == [isNil |-> FALSE, elems |-> s]

Bid(code, bidId, unit, price, w, h, media) ==
  [BidderCode |-> code, BidID |-> bidId, AdUnitCode |-> unit, Price |-> price,
   Adm |-> "adm-" \o code, NURL |-> "nurl-" \o code, Width |-> w, Height |-> h,
   CreativeMediaType |-> media, CacheID |-> "", AdServerTargeting |-> EmptyMap,
   ResponseTime |-> 0]

\* the bids a bidder may answer with: for an ad unit of the request, with or
\* without a size, or for an ad unit the request does not have
BidShapes(code) ==
  {Bid(code, "b1", "u1", 10 * p, d[2], d[3], d[1]) :
     p \in 1..MaxPrice,
     d \in {<<"banner", 0, 0>>, <<"banner", 3, 2>>, <<"video", 0, 0>>}}
    \cup {Bid(code, "b2", "u2", 10 * MaxPrice, d[1], d[2], "banner") :
            d \in {<<0, 0>>, <<3, 2>>}}
    \cup {Bid(code, "b9", "u9", 10, 3, 2, "banner")}

BidLists(code) == {NilList, List(<<>>)} \cup {List(<<b>>) : b \in BidShapes(code)}

(***************************************************************************)
(* checkForValidBidSize                                                    *)
(***************************************************************************)
\* only a banner with neither dimension is looked up
NeedsSizeBoth(bid) ==
  bid.CreativeMediaType = "banner" /\ (bid.Height = 0 /\ bid.Width = 0)

NeedsSize(bid) ==
  bid.CreativeMediaType = "banner" /\ (bid.Height = 0 \/ bid.Width = 0)

MatchesAdUnit(adunit, bid) ==
  adunit.BidID = bid.BidID /\ adunit.Code = bid.AdUnitCode

\* the bid as the loop body leaves it in finalValidBids: <<bid>>, or <<>> when dropped
ReconcileBid(bid, adUnits) ==
  IF NeedsSize(bid)
    THEN LET hits == {k \in 1..Len(adUnits) : MatchesAdUnit(adUnits[k], bid)}
         IN IF hits = {}
              THEN <<>>
              ELSE LET adunit == adUnits[CHOOSE k \in hits : \A j \in hits : k <= j]
                   IN IF Len(adunit.Sizes) = 1
                        THEN <<[bid EXCEPT !.Width = adunit.Sizes[1].W,
                                           !.Height = adunit.Sizes[1].H]>>
                        ELSE <<>>
    ELSE <<bid>>

RECURSIVE checkForValidBidSize(_, _)
checkForValidBidSize(bids, bidder) ==
  IF bids = <<>>
    THEN <<>>
    ELSE ReconcileBid(Head(bids), bidder.AdUnits)
           \o checkForValidBidSize(Tail(bids), bidder)

(***************************************************************************)
(* sortBidsAddKeywordsMobile                                               *)
(***************************************************************************)
\* pbs.GetPriceBucketString(price)[granularity]; prices are in cents
FormatCents(c) ==
  ToString(c \div 100) \o "." \o ToString((c % 100) \div 10) \o ToString(c % 10)

GetPriceBucketString(price, granularity) ==
  LET inc == CASE granularity = "low" -> 50
               [] granularity = "med" -> 10
               [] OTHER -> 1
      cap == IF granularity = "low" THEN 500 ELSE 2000
  IN IF price > cap THEN FormatCents(cap) ELSE FormatCents((price \div inc) * inc)

\* PBSBidSlice.Less: the bid at i goes before the bid at j
Less(bids, i, j) == bids[i].Price > bids[j].Price

\* code_bids[code]: the positions in bids of the bids of one ad unit code, in order
CodeBids(bids, code) ==
  SelectSeq([i \in 1..Len(bids) |-> i], LAMBDA i : bids[i].AdUnitCode = code)

Orderings(s) ==
  {p \in [1..Len(s) -> {s[k] : k \in 1..Len(s)}] :
     \A i, j \in 1..Len(s) : i # j => p[i] # p[j]}

\* sort.Sort(bar): some order of bar that Less does not contradict
SortOutcomes(bids, bar) ==
  {p \in Orderings(bar) :
     \A i, j \in 1..Len(p) : i < j => ~Less(bids, p[j], p[i])}

\* the sorted view of every ad unit of the request
SortedViews(bids, adUnits) ==
  LET codes == {adUnits[k].Code : k \in 1..Len(adUnits)}
  IN {v \in [codes -> UNION {SortOutcomes(bids, CodeBids(bids, c)) : c \in codes}] :
        \A c \in codes : v[c] \in SortOutcomes(bids, CodeBids(bids, c))}

MapPut(m, k, v) == [x \in DOMAIN m \cup {k} |-> IF x = k THEN v ELSE m[x]]

Truncate(key, maxKeyLength) ==
  IF maxKeyLength # 0
    THEN SubSeq(key, 1, min(Len(key), maxKeyLength))
    ELSE key

HbSize(bid) ==
  IF bid.Width # 0 /\ bid.Height # 0
    THEN ToString(bid.Width) \o "x" \o ToString(bid.Height)
    ELSE ""

\* the top bid keys given to the second bid
IsSecondBid(i) == i = 2

IsTopBid(i) == i = 1

LoadMethod(bid) ==
  IF bid.BidderCode = "audienceNetwork"
    THEN hbCreativeLoadMethodDemandSDK
    ELSE hbCreativeLoadMethodHTML

\* pbs_kvs of the bid at position i (from 1) of its sorted ad unit
Keywords(bid, i, maxKeyLength, granularity) ==
  LET roundedCpm == GetPriceBucketString(bid.Price, granularity)
      hbSize == HbSize(bid)
      hbPbBidderKey == Truncate(hbpbConstantKey \o "_" \o bid.BidderCode, maxKeyLength)
      hbBidderBidderKey == Truncate(hbBidderConstantKey \o "_" \o bid.BidderCode, maxKeyLength)
      hbCacheIdBidderKey == Truncate(hbCacheIdConstantKey \o "_" \o bid.BidderCode, maxKeyLength)
      hbSizeBidderKey == Truncate(hbSizeConstantKey \o "_" \o bid.BidderCode, maxKeyLength)
      m1 == MapPut(MapPut(MapPut(EmptyMap, hbPbBidderKey, roundedCpm),
                          hbBidderBidderKey, bid.BidderCode),
                   hbCacheIdBidderKey, bid.CacheID)
      m2 == IF hbSize # "" THEN MapPut(m1, hbSizeBidderKey, hbSize) ELSE m1
      m3 == MapPut(MapPut(MapPut(m2, hbpbConstantKey, roundedCpm),
                          hbBidderConstantKey, bid.BidderCode),
                   hbCacheIdConstantKey, bid.CacheID)
      m4 == IF hbSize # "" THEN MapPut(m3, hbSizeConstantKey, hbSize) ELSE m3
      m5 == MapPut(m4, hbCreativeLoadMethodConstantKey, LoadMethod(bid))
  IN IF IsTopBid(i) THEN m5 ELSE m2

Granularity(priceGranularitySetting) ==
  IF priceGranularitySetting = "" THEN defaultPriceGranularity ELSE priceGranularitySetting

\* the loop over pbs_req.AdUnits from unit k on; view[code] is bar after sort.Sort
RECURSIVE AddKeywords(_, _, _, _, _, _)
AddKeywords(bids, adUnits, k, view, maxKeyLength, granularity) ==
  IF k > Len(adUnits)
    THEN bids
    ELSE LET bar == view[adUnits[k].Code]
             next == [n \in 1..Len(bids) |->
                        IF \E i \in 1..Len(bar) : bar[i] = n
                          THEN [bids[n] EXCEPT !.AdServerTargeting =
                                  Keywords(bids[n], CHOOSE i \in 1..Len(bar) : bar[i] = n,
                                           maxKeyLength, granularity)]
                          ELSE bids[n]]
         IN AddKeywords(next, adUnits, k + 1, view, maxKeyLength, granularity)

sortBidsAddKeywordsMobile(bids, pbs_req, priceGranularitySetting, view) ==
  AddKeywords(bids, pbs_req.AdUnits, 1, view, pbs_req.MaxKeyLength,
              Granularity(priceGranularitySetting))

(***************************************************************************)
(* pbc.Put: the creative cache client.  It is given the auction's ctx; a   *)
(* request under a ctx that has expired fails with the ctx's error, and    *)
(* with no object to store no request is made.  On success every object    *)
(* gets the id the cache chose for it.                                     *)
(***************************************************************************)
CacheObject(bid) ==
  [Adm |-> bid.Adm, NURL |-> bid.NURL, Width |-> bid.Width, Height |-> bid.Height,
   UUID |-> ""]

CacheIds(n) ==
  LET ids == {"uuid-" \o ToString(k) : k \in 1..n}
  IN {u \in [1..n -> ids] : \A i, j \in 1..n : i # j => u[i] # u[j]}

\* the outcomes of Put(ctx, objs) with the cache service up or down
PutOutcomes(ctxState, objs, service) ==
  LET failure == IF ctxState = "expired" THEN DeadlineExceeded
                 ELSE IF service = "down" THEN CacheDown
                 ELSE ""
      stored == {[err |-> "", objs |-> [i \in 1..Len(objs) |-> [objs[i] EXCEPT !.UUID = u[i]]]] :
                   u \in CacheIds(Len(objs))}
  IN IF objs # <<>> /\ failure # ""
       THEN {[err |-> failure, objs |-> objs]}
       ELSE stored

(***************************************************************************)
(* The state of one auction.                                               *)
(***************************************************************************)
VARIABLES
  pbs_req,      \* the request as parsed, and whether it parses and its account resolves
  plan,         \* per bidder request: what its adapter call will return
  bidders,      \* pbs_req.Bidders, the records the tasks write their status into
  hpc,          \* where the handler is
  err,          \* the handler's err
  ctx,          \* the auction's context: "none", "live", "expired", "canceled"
  idx,          \* the fan-out loop's position in pbs_req.Bidders
  sentBids,     \* tasks dispatched
  received,     \* the drain loop's i
  tasks,        \* per bidder request: its goroutine
  bids,         \* pbs_resp.Bids
  cobjs,        \* the cache objects handed to pbc.Put
  cache,        \* the cache service: "unused", "up", "down"; and the calls made to it
  view,         \* code_bids after sort.Sort, per ad unit code of the request
  w,            \* the bodies written to the http.ResponseWriter
  m,            \* deps.m and am: the request level meters
  ametrics,     \* deps.m.AdapterMetrics and am.AdapterMetrics, per bidder code
  csReq,        \* the /cookie_sync request: its cookie, its body
  cspc,         \* where the cookieSync handler is: "idle", "start", "done"
  csw,          \* what the cookieSync handler wrote to its http.ResponseWriter
  call          \* a function of the handler run on its own: its arguments, its result

vars ==
  <<pbs_req, plan, bidders, hpc, err, ctx, idx, sentBids, received, tasks, bids, cobjs,
    cache, view, w, m, ametrics, csReq, cspc, csw, call>>

NoTask == [pc |-> "none", start |-> 0, bid_list |-> NilList]

NoMeters ==
  [RequestMeter |-> 0, NoCookieMeter |-> 0, TimeoutMeter |-> 0, ErrorMeter |-> 0,
   NoBidMeter |-> 0, BidsReceivedMeter |-> 0]

\* time in units of the timeout: 0 before the deadline, 1 after it
Now == IF ctx = "expired" THEN 1 ELSE 0

Request(parses, account, codes, app, cookie, cacheMarkup, sortBids, maxKeyLength, adUnits) ==
  [ParseError |-> IF parses THEN "" ELSE "invalid request",
   AccountID |-> account, App |-> app, Cookie |-> cookie,
   Bidders |-> [i \in 1..Len(codes) |-> NewBidder(codes[i], adUnits)],
   AdUnits |-> adUnits, CacheMarkup |-> cacheMarkup, SortBids |-> sortBids,
   MaxKeyLength |-> maxKeyLength]

\* dataCache.Accounts(): the accounts that exist, with their price granularity
Accounts == [acct |-> [PriceGranularity |-> ""]]

AccountIDs == DOMAIN Accounts \cup {"nope"}

\* an adapter call answers with its list, fails with an error of its own, or runs
\* into the deadline of ctx; with an error it may hand back a list all the same;
\* an adapter that fails may also report a cancellation
Plans(lists, failLists) ==
  {[kind |-> "answer", list |-> l] : l \in lists}
    \cup {[kind |-> k, list |-> l] : k \in {"fail", "timeout"}, l \in failLists}
    \cup {[kind |-> "cancel", list |-> NilList] : l \in failLists}

InitWith(requests, lists(_), failLists(_)) ==
  /\ pbs_req \in requests
  /\ plan \in {p \in [1..Len(pbs_req.Bidders) ->
                        UNION {Plans(lists(c), failLists(c)) : c \in BidderCodes}] :
                 \A i \in 1..Len(pbs_req.Bidders) :
                   LET code == pbs_req.Bidders[i].BidderCode
                   IN IF Registered(code)
                        THEN p[i] \in Plans(lists(code), failLists(code))
                        ELSE p[i] = [kind |-> "answer", list |-> NilList]}
  /\ bidders = pbs_req.Bidders
  /\ hpc = "start"
  /\ err = ""
  /\ ctx = "none"
  /\ idx = 1
  /\ sentBids = 0
  /\ received = 0
  /\ tasks = [i \in 1..Len(pbs_req.Bidders) |-> NoTask]
  /\ bids = <<>>
  /\ cobjs = <<>>
  /\ cache = [service |-> "unused", puts |-> 0]
  /\ view = EmptyMap
  /\ w = <<>>
  /\ m = [RequestMeter |-> 0, ErrorMeter |-> 0, AppRequestMeter |-> 0,
          NoCookieMeter |-> 0, AccountRequestMeter |-> 0, BidsReceivedMeter |-> 0,
          CookieSyncMeter |-> 0]
  /\ ametrics = [c \in DOMAIN exchanges |-> NoMeters]

\* no function is being run on its own
NoCall == call = [pc |-> "idle"]

\* a /cookie_sync request: the user sync cookie it comes with, and its body
SyncRequest(optOut, parses, uuid, codes, cookie) ==
  [OptOut |-> optOut, ParseError |-> IF parses THEN "" ELSE "invalid character",
   UUID |-> uuid, Bidders |-> codes, Cookie |-> cookie]

\* no /cookie_sync request is being served
NoSync ==
  /\ csReq = SyncRequest(FALSE, TRUE, "", <<>>, [f \in Families |-> "none"])
  /\ cspc = "idle"
  /\ csw = <<>>

(***************************************************************************)
(* The handler.                                                            *)
(***************************************************************************)
\* an error body that leaves the cause out
writeAuctionErrorNoCause(s, e) == [Status |-> s, BidderStatus |-> <<>>, Bids |-> <<>>]

\* writeAuctionError: a response that has a status and nothing else
writeAuctionError(s, e) ==
  [Status |-> IF e # "" THEN s \o ": " \o e ELSE s,
   BidderStatus |-> <<>>, Bids |-> <<>>]

Mark(meters, field) == [meters EXCEPT ![field] = @ + 1]

\* the status of the response
Status(req) ==
  IF ~req.App /\ LiveSyncCount(req.Cookie) = 0 THEN "no_cookie" ELSE "OK"

\* the handler goes on with an account it did not find
AccountMissingIgnored(id) == FALSE

\* dataCache.Accounts().Get(pbs_req.AccountID) returns an error
AccountMissing(id) == id \notin DOMAIN Accounts

\* the handler up to the fan-out: parse, the ctx with its timeout, the account
Admit ==
  /\ hpc = "start"
  /\ IF pbs_req.ParseError # ""
       THEN /\ w' = Append(w, writeAuctionError("Error parsing request", pbs_req.ParseError))
            /\ m' = Mark(Mark(m, "RequestMeter"), "ErrorMeter")
            /\ hpc' = "done"
            /\ err' = pbs_req.ParseError
            /\ ctx' = ctx
       ELSE LET m1 == Mark(m, "RequestMeter")
                m2 == IF pbs_req.App THEN Mark(m1, "AppRequestMeter")
                      ELSE IF LiveSyncCount(pbs_req.Cookie) = 0 THEN Mark(m1, "NoCookieMeter")
                      ELSE m1
            IN IF AccountMissing(pbs_req.AccountID)
                 THEN /\ w' = Append(w, writeAuctionError("Unknown account id", "Unknown account"))
                      /\ m' = Mark(m2, "ErrorMeter")
                      /\ hpc' = "done"
                      /\ err' = "account not found"
                      /\ ctx' = "canceled"
                 ELSE /\ w' = w
                      /\ m' = Mark(m2, "AccountRequestMeter")
                      /\ hpc' = IF Len(bidders) = 0 THEN "drain" ELSE "fanout"
                      /\ err' = ""
                      /\ ctx' = "live"
  /\ UNCHANGED <<call, csReq, cspc, csw, pbs_req, plan, bidders, idx, sentBids, received, tasks, bids, cobjs,
                 cache, view, ametrics>>

\* the bidder is left out of the fan-out: no app, no uid, and the adapter skips then
NoUID(req, ex) == ~req.App /\ GetUID(req.Cookie, ex.FamilyName) = ""

\* every bidder without a uid is left out, whatever its adapter's policy
SkippedWithoutPolicy(req, ex) == NoUID(req, ex)

Skipped(req, ex) == NoUID(req, ex) /\ ex.SkipNoCookies

\* one iteration of the loop over pbs_req.Bidders
FanOut ==
  /\ hpc = "fanout"
  /\ LET bidder == bidders[idx]
         code == bidder.BidderCode
     IN IF Registered(code)
          THEN LET ex == exchanges[code]
                   a1 == Mark(ametrics[code], "RequestMeter")
                   a2 == IF NoUID(pbs_req, ex) THEN Mark(a1, "NoCookieMeter") ELSE a1
               IN /\ ametrics' = [ametrics EXCEPT ![code] = a2]
                  /\ bidders' = IF NoUID(pbs_req, ex)
                                  THEN [bidders EXCEPT ![idx].NoCookie = TRUE,
                                                       ![idx].UsersyncInfo = ex.UsersyncInfo]
                                  ELSE bidders
                  /\ IF Skipped(pbs_req, ex)
                       THEN UNCHANGED <<sentBids, tasks>>
                       ELSE /\ sentBids' = sentBids + 1
                            /\ tasks' = [tasks EXCEPT ![idx] =
                                           [pc |-> "calling", start |-> Now, bid_list |-> NilList]]
          ELSE /\ bidders' = [bidders EXCEPT ![idx].Error = "Unsupported bidder"]
               /\ UNCHANGED <<ametrics, sentBids, tasks>>
  /\ idx' = idx + 1
  /\ hpc' = IF idx = Len(bidders) THEN "drain" ELSE "fanout"
  /\ UNCHANGED <<call, csReq, cspc, csw, pbs_req, plan, err, ctx, received, bids, cobjs, cache, view, w, m>>

\* a drain loop that stops one record short
DrainStopsEarly(i, sent) == i < sent - 1

\* a drain loop that waits for one record more
DrainOneMore(i, sent) == i <= sent

\* a handler that does not wait for the tasks
DrainSkipped(i, sent) == FALSE

\* a handler that goes on with the first result
DrainUntilFirst(i, sent) == i < min(sent, 1)

\* the drain loop goes on: i < sentBids
DrainContinues(i, sent) == i < sent

\* result := <-ch with the send of task i, and the append of its bids
Receive(i) ==
  /\ hpc = "drain"
  /\ DrainContinues(received, sentBids)
  /\ tasks[i].pc = "sending"
  /\ bids' = bids \o tasks[i].bid_list.elems
  /\ received' = received + 1
  /\ tasks' = [tasks EXCEPT ![i].pc = "done"]
  /\ UNCHANGED <<call, csReq, cspc, csw, pbs_req, plan, bidders, hpc, err, ctx, idx, sentBids, cobjs, cache,
                 view, w, m, ametrics>>

\* every bid given the id of the first object
CachedFirstId(bidList, objs) ==
  [i \in 1..Len(bidList) |->
     [bidList[i] EXCEPT !.CacheID = objs[1].UUID, !.NURL = "", !.Adm = ""]]

\* bid.CacheID, bid.NURL, bid.Adm after a Put that stored objs
Cached(bidList, objs) ==
  [i \in 1..Len(bidList) |->
     [bidList[i] EXCEPT !.CacheID = objs[i].UUID, !.NURL = "", !.Adm = ""]]

\* the drain loop is over; the cache step
CachePopulate ==
  /\ hpc = "drain"
  /\ ~DrainContinues(received, sentBids)
  /\ IF pbs_req.CacheMarkup = 1
       THEN \E service \in {"up", "down"} :
              \E put \in PutOutcomes(ctx, [i \in 1..Len(bids) |-> CacheObject(bids[i])], service) :
                /\ cache' = [service |-> service, puts |-> cache.puts + 1]
                /\ cobjs' = put.objs
                /\ err' = put.err
                /\ IF put.err # ""
                     THEN /\ w' = Append(w, writeAuctionError("Prebid cache failed", put.err))
                          /\ m' = Mark(m, "ErrorMeter")
                          /\ hpc' = "done"
                          /\ ctx' = "canceled"
                          /\ bids' = bids
                     ELSE /\ bids' = Cached(bids, put.objs)
                          /\ hpc' = "sort"
                          /\ UNCHANGED <<w, m, ctx>>
       ELSE /\ hpc' = "sort"
            /\ UNCHANGED <<cache, cobjs, err, w, m, ctx, bids>>
  /\ UNCHANGED <<call, csReq, cspc, csw, pbs_req, plan, bidders, idx, sentBids, received, tasks, view, ametrics>>

\* the targeting keys, when the request asks for them
SortBids ==
  /\ hpc = "sort"
  /\ IF pbs_req.SortBids = 1
       THEN \E v \in SortedViews(bids, pbs_req.AdUnits) :
              /\ view' = v
              /\ bids' = sortBidsAddKeywordsMobile(
                           bids, pbs_req, Accounts[pbs_req.AccountID].PriceGranularity, v)
       ELSE UNCHANGED <<view, bids>>
  /\ hpc' = "encode"
  /\ UNCHANGED <<call, csReq, cspc, csw, pbs_req, plan, bidders, err, ctx, idx, sentBids, received, tasks,
                 cobjs, cache, w, m, ametrics>>

\* a response that reports the bidders of the registry only
ResponseOfSupported(status, bidderStatus, bidList) ==
  [Status |-> status,
   BidderStatus |-> SelectSeq(bidderStatus, LAMBDA b : Registered(b.BidderCode)),
   Bids |-> bidList]

\* pbs_resp as the encoder sees it: BidderStatus is pbs_req.Bidders itself
Response(status, bidderStatus, bidList) ==
  [Status |-> status, BidderStatus |-> bidderStatus, Bids |-> bidList]

Encode ==
  /\ hpc = "encode"
  /\ w' = Append(w, Response(Status(pbs_req), bidders, bids))
  /\ hpc' = "done"
  /\ ctx' = "canceled"
  /\ UNCHANGED <<call, csReq, cspc, csw, pbs_req, plan, bidders, err, idx, sentBids, received, tasks, bids,
                 cobjs, cache, view, m, ametrics>>

(***************************************************************************)
(* The goroutine of bidder request i, from the return of ex.Call to its    *)
(* send on ch.                                                             *)
(***************************************************************************)
CallError(p) ==
  CASE p.kind = "answer" -> ""
    [] p.kind = "fail" -> BidderFailure
    [] p.kind = "timeout" -> DeadlineExceeded
    [] p.kind = "cancel" -> Canceled

\* a cancellation reported as a timeout
IsTimeoutOrCanceled(callErr) == callErr \in {DeadlineExceeded, Canceled}

\* switch err: case context.DeadlineExceeded
IsTimeout(callErr) == callErr = DeadlineExceeded

\* the list the task sends on ch
SentList(callErr, bid_list, valid) ==
  IF callErr = "" /\ ~bid_list.isNil THEN List(valid) ELSE bid_list

CallReturn(i) ==
  /\ tasks[i].pc = "calling"
  /\ plan[i].kind = "timeout" => ctx = "expired"
  /\ LET callErr == CallError(plan[i])
         bid_list == plan[i].list
         code == bidders[i].BidderCode
         elapsed == Now - tasks[i].start
         timed == [bidders[i] EXCEPT !.ResponseTime = elapsed]
         valid == [k \in 1..Len(checkForValidBidSize(bid_list.elems, timed)) |->
                     [checkForValidBidSize(bid_list.elems, timed)[k]
                        EXCEPT !.ResponseTime = elapsed]]
     IN /\ IF callErr # ""
             THEN IF IsTimeout(callErr)
                    THEN /\ ametrics' = [ametrics EXCEPT ![code] = Mark(@, "TimeoutMeter")]
                         /\ bidders' = [bidders EXCEPT ![i] = [timed EXCEPT !.Error = "Timed out"]]
                         /\ m' = m
                    ELSE /\ ametrics' = [ametrics EXCEPT ![code] = Mark(@, "ErrorMeter")]
                         /\ bidders' = [bidders EXCEPT ![i] = [timed EXCEPT !.Error = callErr]]
                         /\ m' = m
             ELSE IF ~bid_list.isNil
                    THEN /\ bidders' = [bidders EXCEPT ![i] = [timed EXCEPT !.NumBids = Len(valid)]]
                         /\ m' = [m EXCEPT !.BidsReceivedMeter = @ + Len(valid)]
                         /\ ametrics' = [ametrics EXCEPT ![code].BidsReceivedMeter = @ + Len(valid)]
                    ELSE /\ bidders' = [bidders EXCEPT ![i] = [timed EXCEPT !.NoBid = TRUE]]
                         /\ ametrics' = [ametrics EXCEPT ![code] = Mark(@, "NoBidMeter")]
                         /\ m' = m
        /\ tasks' = [tasks EXCEPT ![i].pc = "sending",
                                  ![i].bid_list = SentList(callErr, bid_list, valid)]
  /\ UNCHANGED <<call, csReq, cspc, csw, pbs_req, plan, hpc, err, ctx, idx, sentBids, received, bids, cobjs,
                 cache, view, w>>

\* the deadline of ctx passes
Expire ==
  /\ ctx = "live"
  /\ ctx' = "expired"
  /\ UNCHANGED <<call, csReq, cspc, csw, pbs_req, plan, bidders, hpc, err, idx, sentBids, received, tasks, bids,
                 cobjs, cache, view, w, m, ametrics>>

Next ==
  \/ Admit
  \/ FanOut
  \/ \E i \in DOMAIN tasks : Receive(i)
  \/ CachePopulate
  \/ SortBids
  \/ Encode
  \/ \E i \in DOMAIN tasks : CallReturn(i)
  \/ Expire

(***************************************************************************)
(* The /cookie_sync handler.  What it writes is a status code with a text  *)
(* (http.Error) or with the encoded csResp.                                *)
(***************************************************************************)
\* PBSCookie.AllowSyncs: the user has not opted out
AllowSyncs(req) == ~req.OptOut

\* PBSCookie.HasLiveSync: the family has a uid that has not expired
HasLiveSync(cookie, family) == cookie[family] = "live"

Written(code, text, json) == [Code |-> code, Text |-> text, Json |-> json]

\* the body is parsed before the cookie is looked at
cookieSyncErrorParseFirst(req) ==
  IF req.ParseError # ""
    THEN <<Written(400, "JSON parse failed", <<>>)>>
    ELSE IF ~AllowSyncs(req)
           THEN <<Written(401, "User has opted out", <<>>)>>
           ELSE <<>>

\* the http.Error the handler returns with, if any: opt-out, then the body
cookieSyncError(req) ==
  IF ~AllowSyncs(req)
    THEN <<Written(401, "User has opted out", <<>>)>>
    ELSE IF req.ParseError # ""
           THEN <<Written(400, "JSON parse failed", <<>>)>>
           ELSE <<>>

\* a bidder needs a sync when the user has no uid for its family, as in the auction
NeedsSyncNoUID(cookie, code) ==
  Registered(code) /\ GetUID(cookie, exchanges[code].FamilyName) = ""

\* the bidder of the request gets an entry in csResp.BidderStatus
NeedsSync(cookie, code) ==
  Registered(code) /\ ~HasLiveSync(cookie, exchanges[code].FamilyName)

SyncEntry(code) ==
  [NewBidder(code, <<>>) EXCEPT !.NoCookie = TRUE,
                                !.UsersyncInfo = exchanges[code].UsersyncInfo]

\* csResp after the loop over csReq.Bidders
SyncResponse(req) ==
  LET needed == SelectSeq(req.Bidders, LAMBDA c : NeedsSync(req.Cookie, c))
  IN [UUID |-> req.UUID,
      Status |-> IF LiveSyncCount(req.Cookie) = 0 THEN "no_cookie" ELSE "ok",
      BidderStatus |-> [i \in 1..Len(needed) |-> SyncEntry(needed[i])]]

cookieSync ==
  /\ cspc = "start"
  /\ m' = Mark(m, "CookieSyncMeter")
  /\ csw' = IF cookieSyncError(csReq) # <<>>
              THEN csw \o cookieSyncError(csReq)
              ELSE Append(csw, Written(200, "", <<SyncResponse(csReq)>>))
  /\ cspc' = "done"
  /\ UNCHANGED <<call, csReq, pbs_req, plan, bidders, hpc, err, ctx, idx, sentBids, received,
                 tasks, bids, cobjs, cache, view, w, ametrics>>

(***************************************************************************)
(* The auctions checked.  Spec: every browsing context, every adapter      *)
(* behaviour, a few bid lists.                                             *)
(***************************************************************************)
CoreLists(code) ==
  {NilList, List(<<>>),
   List(<<Bid(code, "b1", "u1", 10, 0, 0, "banner")>>),
   List(<<Bid(code, "b9", "u9", 20, 3, 2, "video")>>)}

CoreFailLists(code) == {NilList, List(<<Bid(code, "b2", "u2", 10, 0, 0, "banner")>>)}

\* with an app the handler never reads the cookie
Contexts ==
  {<<TRUE, [f \in Families |-> "none"]>>} \cup {<<FALSE, cookie>> : cookie \in Cookies}

CoreAdUnits ==
  <<AdUnit("u1", "b1", <<Size(3, 2)>>), AdUnit("u2", "b2", <<Size(3, 2), Size(1, 1)>>)>>

CoreRequests ==
  {Request(FALSE, "acct", <<>>, FALSE, [f \in Families |-> "none"], 0, 0, 0, CoreAdUnits)}
    \cup {Request(TRUE, "nope", codes, FALSE, [f \in Families |-> "live"], 0, 0, 0, CoreAdUnits) :
            codes \in CodeSeqs}
    \cup {Request(TRUE, "acct", codes, c[1], c[2], cacheMarkup, sortBids, 0, CoreAdUnits) :
            codes \in CodeSeqs, c \in Contexts, cacheMarkup \in {0, 1}, sortBids \in {0, 1}}

Init == InitWith(CoreRequests, CoreLists, CoreFailLists) /\ NoSync /\ NoCall

Spec == Init /\ [][Next]_vars

(***************************************************************************)
(* BidSpec: every bid list and every setting of the post-processing, for   *)
(* an app request to registered bidders whose calls do not fail.           *)
(***************************************************************************)
NoFailure(code) == {}

\* sortBids with maxKeyLength; maxKeyLength is read for the targeting keys only
SortSettings == {<<0, 0>>, <<1, 0>>, <<1, 5>>, <<1, 20>>}

BidRequests ==
  {Request(TRUE, "acct", codes, TRUE, [f \in Families |-> "none"], cacheMarkup, sort[1],
           sort[2], adUnits) :
     codes \in {s \in CodeSeqs : \A i \in 1..Len(s) : Registered(s[i])},
     cacheMarkup \in {0, 1}, sort \in SortSettings, adUnits \in AdUnitLists}

BidInit == InitWith(BidRequests, BidLists, NoFailure) /\ NoSync /\ NoCall

BidSpec == BidInit /\ [][Next]_vars

(***************************************************************************)
(* SyncSpec: every /cookie_sync request, with no auction being served.     *)
(***************************************************************************)
\* the bidder lists of a /cookie_sync body; a code may be named twice
SyncCodeLists == UNION {[1..n -> BidderCodes] : n \in 0..(MaxBidders + 1)}

SyncRequests ==
  {SyncRequest(optOut, parses, "uuid-r", IF parses THEN codes ELSE <<>>, cookie) :
     optOut \in BOOLEAN, parses \in BOOLEAN, codes \in SyncCodeLists, cookie \in Cookies}

IdleAuction ==
  {Request(TRUE, "acct", <<>>, FALSE, [f \in Families |-> "none"], 0, 0, 0, CoreAdUnits)}

SyncInit ==
  /\ InitWith(IdleAuction, CoreLists, CoreFailLists)
  /\ csReq \in SyncRequests
  /\ cspc = "start"
  /\ csw = <<>>
  /\ NoCall

SyncSpec == SyncInit /\ [][cookieSync]_vars

(***************************************************************************)
(* SizeSpec: checkForValidBidSize on its own, on every list of up to       *)
(* MaxBids bids and every list of ad units below.                          *)
(***************************************************************************)
\* a bid for an ad unit with one size, with two sizes, with no size, for an ad
\* unit code under another bid id, and for an ad unit the bidder does not have;
\* with no dimension, one dimension or both
SizeBids ==
  {Bid("appnexus", u[2], u[1], 10, d[2], d[3], d[1]) :
     u \in {<<"u1", "b1">>, <<"u2", "b2">>, <<"u3", "b3">>, <<"u1", "b2">>, <<"u9", "b9">>},
     d \in {<<"banner", 0, 0>>, <<"banner", 0, 2>>, <<"banner", 3, 0>>,
            <<"banner", 3, 2>>, <<"video", 0, 0>>}}

SizeBidLists == UNION {[1..n -> SizeBids] : n \in 0..MaxBids}

\* the bidder's ad units; in the second list two ad units have the same code and
\* bid id, in the third the one size of u1 is empty
SizeAdUnitLists ==
  {<<AdUnit("u1", "b1", <<Size(5, 4)>>), AdUnit("u2", "b2", <<Size(5, 4), Size(1, 1)>>),
     AdUnit("u3", "b3", <<>>)>>,
   <<AdUnit("u1", "b1", <<Size(5, 4), Size(1, 1)>>), AdUnit("u1", "b1", <<Size(5, 4)>>),
     AdUnit("u2", "b2", <<Size(7, 6)>>)>>,
   <<AdUnit("u1", "b1", <<Size(0, 0)>>)>>}

checkSizes ==
  /\ call.pc = "sizes"
  /\ call' = [call EXCEPT !.pc = "done",
                          !.result = checkForValidBidSize(call.bids, call.bidder)]
  /\ UNCHANGED <<csReq, cspc, csw, pbs_req, plan, bidders, hpc, err, ctx, idx, sentBids,
                 received, tasks, bids, cobjs, cache, view, w, m, ametrics>>

SizeInit ==
  /\ InitWith(IdleAuction, CoreLists, CoreFailLists)
  /\ NoSync
  /\ call \in {[pc |-> "sizes", bids |-> b, bidder |-> NewBidder("appnexus", a),
                result |-> <<>>] : b \in SizeBidLists, a \in SizeAdUnitLists}

SizeSpec == SizeInit /\ [][checkSizes]_vars

(***************************************************************************)
(* SortSpec: sortBidsAddKeywordsMobile on its own, run twice on the same   *)
(* bids, price granularity and maxKeyLength.  What else it reads, the ad   *)
(* units of pbs_req, is chosen anew at every run.                          *)
(***************************************************************************)
SortBidShapes ==
  {Bid(code, u[2], u[1], price, 3, 2, "banner") :
     code \in DOMAIN exchanges, u \in {<<"u1", "b1">>, <<"u9", "b9">>},
     price \in {10, 10 * MaxPrice}}

SortBidLists == UNION {[1..n -> SortBidShapes] : n \in 0..MaxBids}

SortAdUnitLists == {CoreAdUnits, <<AdUnit("u9", "b9", <<Size(3, 2)>>)>>}

runSort ==
  /\ call.pc = "sort"
  /\ \E adUnits \in SortAdUnitLists :
       \E v \in SortedViews(call.bids, adUnits) :
         call' = [call EXCEPT
                    !.runs = Append(@, sortBidsAddKeywordsMobile(
                                         call.bids,
                                         [AdUnits |-> adUnits,
                                          MaxKeyLength |-> call.maxKeyLength],
                                         call.priceGranularitySetting, v)),
                    !.pc = IF Len(call.runs) = 1 THEN "done" ELSE "sort"]
  /\ UNCHANGED <<csReq, cspc, csw, pbs_req, plan, bidders, hpc, err, ctx, idx, sentBids,
                 received, tasks, bids, cobjs, cache, view, w, m, ametrics>>

SortInit ==
  /\ InitWith(IdleAuction, CoreLists, CoreFailLists)
  /\ NoSync
  /\ call \in {[pc |-> "sort", bids |-> b, priceGranularitySetting |-> g,
                maxKeyLength |-> k, runs |-> <<>>] :
                 b \in SortBidLists, g \in {"", "low"}, k \in {0, 5}}

SortSpec == SortInit /\ [][runSort]_vars

(***************************************************************************)
(* LiveSpec: the auction under fair scheduling.  The goroutines of the     *)
(* handler and of the tasks are scheduled as long as they can take a step, *)
(* a send and its receive meet when both are ready, the timer of ctx fires *)
(* while ctx is live, and every adapter call returns: at once or, when it  *)
(* waits for the deadline, once ctx has expired.                           *)
(***************************************************************************)
LiveRequests ==
  {Request(FALSE, "acct", <<>>, FALSE, [f \in Families |-> "none"], 0, 0, 0, CoreAdUnits)}
    \cup {Request(TRUE, "nope", codes, FALSE, [f \in Families |-> "live"], 0, 0, 0, CoreAdUnits) :
            codes \in CodeSeqs}
    \cup {Request(TRUE, "acct", codes, app, [f \in Families |-> "none"], cacheMarkup, 0, 0,
                  CoreAdUnits) :
            codes \in CodeSeqs, app \in BOOLEAN, cacheMarkup \in {0, 1}}

LiveInit == InitWith(LiveRequests, CoreLists, CoreFailLists) /\ NoSync /\ NoCall

Fairness ==
  /\ WF_vars(Admit)
  /\ WF_vars(FanOut)
  /\ WF_vars(\E i \in DOMAIN tasks : Receive(i))
  /\ WF_vars(CachePopulate)
  /\ WF_vars(SortBids)
  /\ WF_vars(Encode)
  /\ WF_vars(\E i \in DOMAIN tasks : CallReturn(i))
  /\ WF_vars(Expire)

LiveSpec == LiveInit /\ [][Next]_vars /\ Fairness

(***************************************************************************)
(* Properties                                                              *)
(***************************************************************************)
\* the request parsed and its account resolved: the auction ran
Admitted == pbs_req.ParseError = "" /\ pbs_req.AccountID \in DOMAIN Accounts

\* the handler returned after encoding pbs_resp
Responded == hpc = "done" /\ Admitted /\ err = ""

\* the handler returned because pbc.Put failed
CacheFailed == hpc = "done" /\ cache.puts > 0 /\ err # ""

Dispatched == {i \in DOMAIN tasks : tasks[i].pc # "none"}

\* one BidderStatus per BidderRequest of the request, in its order
StatusPerRequest(body) ==
  /\ Len(body.BidderStatus) = Len(pbs_req.Bidders)
  /\ \A i \in 1..Len(pbs_req.Bidders) :
       body.BidderStatus[i].BidderCode = pbs_req.Bidders[i].BidderCode

\* C1 as stated: every body the handler of an admitted auction writes has one
\* BidderStatus per BidderRequest of the request, in input order, cache failure
\* included.
C1_StatusPerRequestAlways ==
  Admitted => \A k \in 1..Len(w) : StatusPerRequest(w[k])

\* C1 as amended: an admitted auction writes one body; unless the cache write
\* failed it has one BidderStatus per BidderRequest of the request, in input order,
\* whatever the bidders did; after a failed cache write it has no BidderStatus.
C1_StatusPerRequest ==
  (hpc = "done" /\ Admitted) =>
    /\ Len(w) = 1
    /\ IF CacheFailed THEN w[1].BidderStatus = <<>> ELSE StatusPerRequest(w[1])

C1_Witness ==
  /\ Responded
  /\ Len(w) = 1
  /\ Len(w[1].BidderStatus) = 2
  /\ \E i, j \in 1..2 :
       /\ w[1].BidderStatus[i].Error = "Unsupported bidder"
       /\ w[1].BidderStatus[j].Error = "Timed out"

\* C2: sentBids is the number of tasks dispatched; every task sends at most once
\* and received counts those sends; when the handler is past the drain it has
\* received exactly sentBids records, one from every dispatched task.
C2_ExactlySentBidsResults ==
  /\ sentBids = Cardinality(Dispatched)
  /\ received = Cardinality({i \in DOMAIN tasks : tasks[i].pc = "done"})
  /\ received <= sentBids
  /\ hpc \in {"sort", "encode", "done"} =>
       /\ received = sentBids
       /\ \A i \in Dispatched : tasks[i].pc = "done"

C2_Witness ==
  /\ hpc = "done"
  /\ sentBids = 2
  /\ received = 2
  /\ \E i, j \in 1..Len(bidders) :
       /\ bidders[i].Error = "Timed out"
       /\ bidders[j].Error = BidderFailure \/ bidders[j].NoBid \/ bidders[j].NumBids > 0

\* C3 as stated: with the cache service not down, an admitted auction ends with
\* the full response (status, bidder statuses, bids), whatever the bidders did
\* and whenever the deadline passed.
C3_BidderFailuresAbsorbed ==
  (hpc = "done" /\ Admitted /\ cache.service # "down") =>
    w = <<[Status |-> Status(pbs_req), BidderStatus |-> bidders, Bids |-> bids]>>

\* the handler goroutine has no step it can take: it waits on ch
HandlerBlocked ==
  /\ hpc = "drain"
  /\ ~ENABLED CachePopulate
  /\ \A i \in DOMAIN tasks : ~ENABLED Receive(i)

\* C4 as stated: once the scope has fired the handler is not blocked on a bidder
\* call, also when the adapter returns only some time after the scope fired.
C4_NeverBlockedPastDeadline ==
  ctx = "expired" =>
    ~(HandlerBlocked /\ \E i \in DOMAIN tasks :
                          tasks[i].pc = "calling" /\ plan[i].kind # "timeout")

\* C4 as amended: the handler is blocked only while a dispatched adapter call has
\* not returned, before and after the scope fires; with every call returned it is
\* not blocked.
C4_BlockedOnlyOnOutstandingCall ==
  HandlerBlocked => \E i \in DOMAIN tasks : tasks[i].pc = "calling"

C4_Witness ==
  /\ ctx = "expired"
  /\ HandlerBlocked
  /\ received = 1
  /\ \E i \in DOMAIN tasks : tasks[i].pc = "calling" /\ plan[i].kind = "answer"

\* C5 as stated: a bidder whose status carries an error has no bid in the bids of
\* the response.
C5_NoBidFromFailedBidder ==
  \A k \in 1..Len(w) :
    \A j \in 1..Len(w[k].Bids), i \in 1..Len(w[k].BidderStatus) :
      w[k].BidderStatus[i].BidderCode = w[k].Bids[j].BidderCode =>
        w[k].BidderStatus[i].Error = ""

\* C6: after a cache write that did not fail, the cache was sent one object per
\* bid of the response, in the order of the bids, with the bid's adm, nurl, width
\* and height; every bid has the id of the object at its index, which is not empty,
\* and its adm and nurl are empty.
C6_CacheIds ==
  (Responded /\ pbs_req.CacheMarkup = 1) =>
    /\ Len(w) = 1
    /\ Len(cobjs) = Len(w[1].Bids)
    /\ \A i \in 1..Len(w[1].Bids) :
         LET bid == w[1].Bids[i]
         IN /\ bid.CacheID = cobjs[i].UUID
            /\ bid.CacheID # ""
            /\ bid.Adm = ""
            /\ bid.NURL = ""
            /\ cobjs[i].Adm = "adm-" \o bid.BidderCode
            /\ cobjs[i].NURL = "nurl-" \o bid.BidderCode
            /\ cobjs[i].Width = bid.Width
            /\ cobjs[i].Height = bid.Height

C6_Witness ==
  /\ Responded
  /\ pbs_req.CacheMarkup = 1
  /\ Len(w[1].Bids) = 2
  /\ w[1].Bids[1].CacheID = "uuid-2"
  /\ w[1].Bids[2].CacheID = "uuid-1"
  /\ w[1].Bids[1].BidderCode # w[1].Bids[2].BidderCode

\* C7: without cacheMarkup the cache client is not called; when the cache write
\* fails the handler returns having written one body, whose status is "Prebid
\* cache failed: " and the error, and marked the error meter once, and no bid has
\* targeting keys.
C7_CacheFailure ==
  /\ pbs_req.CacheMarkup # 1 => cache.puts = 0
  /\ (cache.puts > 0 /\ err # "") =>
       /\ hpc = "done"
       /\ Len(w) = 1
       /\ w[1].Status = "Prebid cache failed: " \o err
       /\ w[1].BidderStatus = <<>>
       /\ w[1].Bids = <<>>
       /\ m.ErrorMeter = 1
       /\ view = EmptyMap
       /\ \A j \in 1..Len(bids) : bids[j].AdServerTargeting = EmptyMap

C7_Witness ==
  /\ CacheFailed
  /\ cache.service = "down"
  /\ ctx = "canceled"
  /\ pbs_req.SortBids = 1
  /\ Len(bids) = 2

\* C8 as stated: every banner bid of a response has a width and a height above 0.
C8_BannerHasSize ==
  \A k \in 1..Len(w) :
    \A j \in 1..Len(w[k].Bids) :
      w[k].Bids[j].CreativeMediaType = "banner" =>
        w[k].Bids[j].Width > 0 /\ w[k].Bids[j].Height > 0

\* the positions in the response's bids of the bids of an ad unit code
Group(bidList, code) == {n \in 1..Len(bidList) : bidList[n].AdUnitCode = code}

\* C9: with sortBids = 1, for every ad unit of the request that has bids: its
\* sorted view holds exactly its bids, by non-increasing price; the bid at index 0
\* has the highest price of the ad unit and has hb_pb, hb_bidder, hb_cache_id,
\* hb_size when both dimensions are not 0, and hb_creative_loadtype, which is
\* demand_sdk for audienceNetwork and html otherwise; no other bid of the ad unit
\* has hb_creative_loadtype.
C9_TopBidKeys ==
  (Responded /\ pbs_req.SortBids = 1) =>
    \A u \in 1..Len(pbs_req.AdUnits) :
      LET code == pbs_req.AdUnits[u].Code
          all == w[1].Bids
          bar == view[code]
      IN Group(all, code) # {} =>
           /\ Len(bar) = Cardinality(Group(all, code))
           /\ {bar[i] : i \in 1..Len(bar)} = Group(all, code)
           /\ \A i, j \in 1..Len(bar) : i < j => all[bar[i]].Price >= all[bar[j]].Price
           /\ \A n \in Group(all, code) : all[bar[1]].Price >= all[n].Price
           /\ LET top == all[bar[1]]
                  kv == top.AdServerTargeting
              IN /\ {"hb_pb", "hb_bidder", "hb_cache_id", "hb_creative_loadtype"}
                      \subseteq DOMAIN kv
                 /\ kv["hb_bidder"] = top.BidderCode
                 /\ kv["hb_cache_id"] = top.CacheID
                 /\ (top.Width # 0 /\ top.Height # 0) =>
                      /\ "hb_size" \in DOMAIN kv
                      /\ kv["hb_size"] = ToString(top.Width) \o "x" \o ToString(top.Height)
                 /\ kv["hb_creative_loadtype"] =
                      IF top.BidderCode = "audienceNetwork" THEN "demand_sdk" ELSE "html"
           /\ \A n \in Group(all, code) \ {bar[1]} :
                "hb_creative_loadtype" \notin DOMAIN all[n].AdServerTargeting

C9_Witness ==
  /\ Responded
  /\ pbs_req.SortBids = 1
  /\ Len(w[1].Bids) = 2
  /\ w[1].Bids[1].AdUnitCode = "u1"
  /\ w[1].Bids[2].AdUnitCode = "u1"
  /\ w[1].Bids[1].Price < w[1].Bids[2].Price
  /\ view["u1"] = <<2, 1>>
  /\ w[1].Bids[2].BidderCode = "audienceNetwork"
  /\ w[1].Bids[2].AdServerTargeting["hb_creative_loadtype"] = "demand_sdk"
  /\ "hb_size" \in DOMAIN w[1].Bids[2].AdServerTargeting
  /\ "hb_creative_loadtype" \notin DOMAIN w[1].Bids[1].AdServerTargeting

\* C10 as stated: with sortBids = 1 every bid of the response has
\* hb_pb_<bidderCode>, hb_bidder_<bidderCode> and hb_cache_id_<bidderCode>, and
\* has hb_size_<bidderCode> exactly when both dimensions are not 0.
C10_SuffixedKeys ==
  (Responded /\ pbs_req.SortBids = 1) =>
    \A j \in 1..Len(w[1].Bids) :
      LET bid == w[1].Bids[j]
          kv == bid.AdServerTargeting
      IN /\ {"hb_pb_" \o bid.BidderCode, "hb_bidder_" \o bid.BidderCode,
             "hb_cache_id_" \o bid.BidderCode} \subseteq DOMAIN kv
         /\ ("hb_size_" \o bid.BidderCode) \in DOMAIN kv
              <=> (bid.Width # 0 /\ bid.Height # 0)

\* the untruncated key names of a bid: the bidder's and the top bid's
FullKeyNames(bid) ==
  {hbpbConstantKey \o "_" \o bid.BidderCode, hbBidderConstantKey \o "_" \o bid.BidderCode,
   hbCacheIdConstantKey \o "_" \o bid.BidderCode, hbSizeConstantKey \o "_" \o bid.BidderCode,
   hbpbConstantKey, hbBidderConstantKey, hbCacheIdConstantKey, hbSizeConstantKey,
   hbCreativeLoadMethodConstantKey}

\* C11 as stated: with maxKeyLength > 0 every key name of every bid's
\* adServerTargeting, with the bidder's suffix or without it, is at most
\* maxKeyLength long and is the prefix of that length of an untruncated name.
C11_EveryKeyNameTruncated ==
  (Responded /\ pbs_req.SortBids = 1 /\ pbs_req.MaxKeyLength > 0) =>
    \A j \in 1..Len(w[1].Bids) :
      \A k \in DOMAIN w[1].Bids[j].AdServerTargeting :
        /\ Len(k) <= pbs_req.MaxKeyLength
        /\ \E name \in FullKeyNames(w[1].Bids[j]) :
             k = SubSeq(name, 1, min(Len(name), pbs_req.MaxKeyLength))

\* the positions in the /cookie_sync request of the bidders that need a sync: the
\* code is in the registry and the user has no live sync for the adapter's family
Unsynced ==
  {i \in 1..Len(csReq.Bidders) :
     /\ csReq.Bidders[i] \in DOMAIN exchanges
     /\ csReq.Cookie[exchanges[csReq.Bidders[i]].FamilyName] # "live"}

\* C12: a /cookie_sync request of a user who has not opted out, with a body that
\* parses, is answered with one csResp whose bidder_status has, in request order,
\* one entry {bidderCode, noCookie: true, usersyncInfo of the adapter} for every
\* requested bidder that is registered and has no live sync, and no other entry.
C12_SyncEntries ==
  (cspc = "done" /\ ~csReq.OptOut /\ csReq.ParseError = "") =>
    /\ Len(csw) = 1
    /\ csw[1].Code = 200
    /\ Len(csw[1].Json) = 1
    /\ LET status == csw[1].Json[1].BidderStatus
       IN /\ Len(status) = Cardinality(Unsynced)
          /\ \E f \in [1..Len(status) -> Unsynced] :
               /\ \A a, b \in 1..Len(status) : a < b => f[a] < f[b]
               /\ \A k \in 1..Len(status) :
                    /\ status[k].BidderCode = csReq.Bidders[f[k]]
                    /\ status[k].NoCookie = TRUE
                    /\ status[k].UsersyncInfo = exchanges[csReq.Bidders[f[k]]].UsersyncInfo

C12_Witness ==
  /\ cspc = "done"
  /\ ~csReq.OptOut
  /\ csReq.Bidders = <<"appnexus", "audienceNetwork", "unknownBidder">>
  /\ csReq.Cookie["adnxs"] = "live"
  /\ csReq.Cookie["audienceNetwork"] = "expired"
  /\ Len(csw[1].Json[1].BidderStatus) = 1
  /\ csw[1].Json[1].BidderStatus[1].BidderCode = "audienceNetwork"
  /\ csw[1].Json[1].BidderStatus[1].UsersyncInfo = "sync-audienceNetwork"

\* C13: the /cookie_sync handler answers a user who has opted out with 401 "User
\* has opted out" whether the body parses or not, and a user who has not opted out
\* and sends a body that does not parse with 400 "JSON parse failed"; in both
\* cases that is all it writes: no csResp, no bidder status.
C13_SyncRejections ==
  cspc = "done" =>
    /\ csReq.OptOut =>
         csw = <<[Code |-> 401, Text |-> "User has opted out", Json |-> <<>>]>>
    /\ (~csReq.OptOut /\ csReq.ParseError # "") =>
         csw = <<[Code |-> 400, Text |-> "JSON parse failed", Json |-> <<>>]>>

C13_Witness ==
  /\ cspc = "done"
  /\ csReq.OptOut
  /\ csReq.ParseError # ""
  /\ csw[1].Code = 401
  /\ m.CookieSyncMeter = 1

\* C14: when the account of the request does not resolve, no bidder task is ever
\* dispatched, no bidder record and no adapter meter changes, and the handler
\* returns having written the one body {status: "Unknown account id: Unknown
\* account"} and marked the request error meter exactly once.
C14_UnknownAccount ==
  (pbs_req.ParseError = "" /\ pbs_req.AccountID \notin DOMAIN Accounts) =>
    /\ hpc \in {"start", "done"}
    /\ sentBids = 0
    /\ \A i \in DOMAIN tasks : tasks[i].pc = "none"
    /\ bidders = pbs_req.Bidders
    /\ \A c \in DOMAIN ametrics : ametrics[c] = NoMeters
    /\ hpc = "done" =>
         /\ w = <<[Status |-> "Unknown account id: Unknown account",
                   BidderStatus |-> <<>>, Bids |-> <<>>]>>
         /\ m.ErrorMeter = 1

C14_Witness ==
  /\ hpc = "done"
  /\ pbs_req.AccountID = "nope"
  /\ Len(pbs_req.Bidders) = 2
  /\ \A i \in 1..2 : pbs_req.Bidders[i].BidderCode \in DOMAIN exchanges
  /\ Len(w) = 1
  /\ m.ErrorMeter = 1
  /\ m.RequestMeter = 1

RECURSIVE Sum(_, _)
Sum(f, S) ==
  IF S = {} THEN 0 ELSE LET x == CHOOSE x \in S : TRUE IN f[x] + Sum(f, S \ {x})

\* the failures of the taxonomy that happened: those of the request and of its bidders
RequestFailures ==
  IF hpc = "done" /\ (~Admitted \/ CacheFailed) THEN 1 ELSE 0

BidderFailures == {i \in DOMAIN bidders : bidders[i].Error # ""}

\* the marks of the failure counters: the request error meter and every adapter's
\* timeout and error meters
FailureMarks ==
  m.ErrorMeter
    + Sum([c \in DOMAIN ametrics |-> ametrics[c].TimeoutMeter + ametrics[c].ErrorMeter],
          DOMAIN ametrics)

\* C15 as stated: every failure marks its counter: a parse failure, an unknown
\* account and a cache failure the request error meter, a bidder timeout the
\* bidder's timeout meter, another bidder error the bidder's error meter, and an
\* unsupported bidder a counter too, so that the counters have a mark for every
\* failure that happened.
C15_EveryFailureCounted ==
  /\ RequestFailures = 1 => m.ErrorMeter = 1
  /\ \A i \in BidderFailures :
       Registered(bidders[i].BidderCode) =>
         IF bidders[i].Error = "Timed out"
           THEN ametrics[bidders[i].BidderCode].TimeoutMeter = 1
           ELSE ametrics[bidders[i].BidderCode].ErrorMeter = 1
  /\ FailureMarks >= RequestFailures + Cardinality(BidderFailures)

\* C16: in every step, a BidderRequest's record is written either by the handler,
\* in the loop iteration of that record and before the record has a task, or by
\* the record's own task between the return of its call and its send; the handler
\* encodes the records only when every dispatched task has sent and the handler
\* has received it; every task sends once, and every send is received by the
\* handler in its drain loop, one at a time.
C16_NoDataRace ==
  [][/\ \A i \in DOMAIN bidders :
          bidders'[i] # bidders[i] =>
            \/ /\ hpc = "fanout"
               /\ idx = i
               /\ idx' = i + 1
               /\ tasks[i].pc = "none"
               /\ \A j \in DOMAIN tasks : j # i => tasks'[j] = tasks[j] /\ bidders'[j] = bidders[j]
            \/ /\ tasks[i].pc = "calling"
               /\ tasks'[i].pc = "sending"
               /\ hpc' = hpc
               /\ idx' = idx
               /\ \A j \in DOMAIN tasks : j # i => tasks'[j] = tasks[j] /\ bidders'[j] = bidders[j]
     /\ (hpc = "encode" /\ w' # w) =>
          /\ bidders' = bidders
          /\ w' = Append(w, [Status |-> Status(pbs_req), BidderStatus |-> bidders,
                             Bids |-> bids])
          /\ \A i \in DOMAIN tasks : tasks[i].pc \in {"none", "done"}
          /\ received = sentBids
     /\ \A i \in DOMAIN tasks :
          tasks'[i].pc # tasks[i].pc =>
            \/ tasks[i].pc = "none" /\ tasks'[i].pc = "calling"
            \/ tasks[i].pc = "calling" /\ tasks'[i].pc = "sending"
            \/ /\ tasks[i].pc = "sending"
               /\ tasks'[i].pc = "done"
               /\ hpc = "drain"
               /\ received' = received + 1
     /\ received' # received =>
          /\ received' = received + 1
          /\ Cardinality({i \in DOMAIN tasks :
                            tasks[i].pc = "sending" /\ tasks'[i].pc = "done"}) = 1
    ]_vars

C16_Witness ==
  /\ Responded
  /\ sentBids = 2
  /\ \A i \in 1..2 : tasks[i].pc = "done"
  /\ \E i, j \in 1..2 :
       /\ i # j
       /\ w[1].BidderStatus[i].NoCookie
       /\ w[1].BidderStatus[i].NumBids = 1
       /\ w[1].BidderStatus[j].Error = "Timed out"
       /\ w[1].BidderStatus[j].ResponseTime = 1

\* the BidderRequest at i is to be dispatched: its code is registered, and it is
\* not the case that the request has no app, the user has no uid for the adapter's
\* family and the adapter skips users without a cookie
Eligible(i) ==
  LET code == pbs_req.Bidders[i].BidderCode
  IN /\ code \in DOMAIN exchanges
     /\ ~(/\ ~pbs_req.App
          /\ pbs_req.Cookie[exchanges[code].FamilyName] = "none"
          /\ exchanges[code].SkipNoCookies)

\* C17: of the BidderRequests the fan-out loop has gone through, exactly the
\* eligible ones have a task; sentBids is their number; one whose code is not
\* registered has the error "Unsupported bidder", has no task, and no adapter
\* meter changes for it; a BidderRequest the loop has not reached has no task.
C17_DispatchedIffEligible ==
  /\ \A i \in DOMAIN bidders : tasks[i].pc # "none" <=> (i < idx /\ Eligible(i))
  /\ sentBids = Cardinality({i \in DOMAIN bidders : i < idx /\ Eligible(i)})
  /\ \A i \in DOMAIN bidders :
       (i < idx /\ bidders[i].BidderCode \notin DOMAIN exchanges) =>
         /\ bidders[i].Error = "Unsupported bidder"
         /\ tasks[i] = NoTask
  /\ hpc \in {"drain", "sort", "encode"} => idx = Len(bidders) + 1

C17_Witness ==
  /\ hpc = "done"
  /\ Responded
  /\ ~pbs_req.App
  /\ Len(bidders) = 2
  /\ bidders[1].BidderCode = "audienceNetwork"
  /\ bidders[2].BidderCode = "appnexus"
  /\ \A f \in Families : pbs_req.Cookie[f] = "none"
  /\ tasks[1].pc = "none"
  /\ tasks[2].pc = "done"
  /\ sentBids = 1

\* C18 as stated: a registered bidder has noCookie = true and the adapter's
\* usersyncInfo exactly when the request has no app and the user has no uid for
\* the adapter's family; with an app it is always dispatched; and when it is then
\* skipped for the adapter's skipNoCookies, the adapter's no_cookie meter is the
\* only meter of the adapter that changed.
C18_SkippedCountsNoCookieOnly ==
  \A i \in DOMAIN bidders :
    (i < idx /\ bidders[i].BidderCode \in DOMAIN exchanges) =>
      LET code == bidders[i].BidderCode
          nouid == ~pbs_req.App /\ pbs_req.Cookie[exchanges[code].FamilyName] = "none"
      IN /\ bidders[i].NoCookie <=> nouid
         /\ bidders[i].UsersyncInfo = IF nouid THEN exchanges[code].UsersyncInfo ELSE ""
         /\ pbs_req.App => tasks[i].pc # "none"
         /\ (nouid /\ exchanges[code].SkipNoCookies) =>
              /\ tasks[i].pc = "none"
              /\ ametrics[code] = [NoMeters EXCEPT !.NoCookieMeter = 1]

\* the bidder's task has returned from a call that failed
CallFailed(i) == tasks[i].pc \in {"sending", "done"} /\ plan[i].kind # "answer"

\* C19: a dispatched bidder whose call failed with the deadline's error has the
\* error "Timed out", and of its adapter's failure meters the timeout meter alone
\* is marked; one whose call failed with a cancellation or any other error has
\* the error's message, and the error meter alone is marked; in both cases numBids
\* is 0, noBid is false and neither the no-bid nor the bids meter is marked.
C19_CallErrors ==
  \A i \in DOMAIN tasks :
    CallFailed(i) =>
      LET code == bidders[i].BidderCode
          timedOut == plan[i].kind = "timeout"
      IN /\ bidders[i].Error =
              CASE plan[i].kind = "timeout" -> "Timed out"
                [] plan[i].kind = "cancel" -> "context canceled"
                [] plan[i].kind = "fail" -> "bidder failure"
         /\ ametrics[code].TimeoutMeter = IF timedOut THEN 1 ELSE 0
         /\ ametrics[code].ErrorMeter = IF timedOut THEN 0 ELSE 1
         /\ ametrics[code].NoBidMeter = 0
         /\ ametrics[code].BidsReceivedMeter = 0
         /\ m.BidsReceivedMeter = Sum([j \in DOMAIN bidders |-> bidders[j].NumBids],
                                      DOMAIN bidders)
         /\ bidders[i].NumBids = 0
         /\ bidders[i].NoBid = FALSE

C19_Witness ==
  /\ hpc = "done"
  /\ Len(bidders) = 2
  /\ plan[1].kind = "timeout"
  /\ plan[1].list # NilList
  /\ plan[2].kind = "cancel"
  /\ bidders[1].Error = "Timed out"
  /\ bidders[2].Error = "context canceled"
  /\ ametrics[bidders[1].BidderCode].TimeoutMeter = 1
  /\ ametrics[bidders[2].BidderCode].ErrorMeter = 1

\* the bidder's task has returned from a call that succeeded
CallSucceeded(i) == tasks[i].pc \in {"sending", "done"} /\ plan[i].kind = "answer"

\* C20 as stated: a dispatched bidder whose call succeeded has noBid = true
\* exactly when the adapter's list has no bid, be it nil or allocated with length
\* 0, and then its no-bid meter is marked; with a list that has bids noBid is false
\* and numBids is the number of bids left by the size reconciliation.
C20_NoBidIffEmptyList ==
  \A i \in DOMAIN tasks :
    CallSucceeded(i) =>
      LET code == bidders[i].BidderCode
          returned == plan[i].list.elems
      IN /\ bidders[i].NoBid <=> Len(returned) = 0
         /\ Len(returned) = 0 => ametrics[code].NoBidMeter = 1
         /\ Len(returned) > 0 =>
              /\ bidders[i].NumBids = Len(tasks[i].bid_list.elems)
              /\ ametrics[code].NoBidMeter = 0

\* the ad unit a bid comes from: the first of the bidder's ad units with the bid's
\* bid id and ad unit code; 0 when there is none
Origin(bid, adUnits) ==
  LET hits == {k \in 1..Len(adUnits) :
                 adUnits[k].BidID = bid.BidID /\ adUnits[k].Code = bid.AdUnitCode}
  IN IF hits = {} THEN 0 ELSE CHOOSE k \in hits : \A j \in hits : k <= j

Sizeless(bid) == bid.CreativeMediaType = "banner" /\ (bid.Width = 0 \/ bid.Height = 0)

\* the bid is among the bids returned
Kept(bid, adUnits) ==
  Sizeless(bid) => (Origin(bid, adUnits) # 0 /\ Len(adUnits[Origin(bid, adUnits)].Sizes) = 1)

\* C21: checkForValidBidSize returns, in the order of its input, the non-banner
\* bids and the banner bids with both dimensions as they are, and the banner bids
\* that lack a dimension and whose ad unit declares exactly one size with the
\* width and the height of that size; a banner bid that lacks a dimension is left
\* out when its ad unit declares more than one size (or none) and when no ad unit
\* matches; the result is never longer than the input.
C21_ValidBidSizes ==
  call.pc = "done" =>
    LET adUnits == call.bidder.AdUnits
        kept == {i \in 1..Len(call.bids) : Kept(call.bids[i], adUnits)}
        out == call.result
    IN /\ Len(out) = Cardinality(kept)
       /\ Len(out) <= Len(call.bids)
       /\ \E f \in [1..Len(out) -> kept] :
            /\ \A a, b \in 1..Len(out) : a < b => f[a] < f[b]
            /\ \A k \in 1..Len(out) :
                 LET bid == call.bids[f[k]]
                 IN IF Sizeless(bid)
                      THEN out[k] =
                             [bid EXCEPT !.Width = adUnits[Origin(bid, adUnits)].Sizes[1].W,
                                         !.Height = adUnits[Origin(bid, adUnits)].Sizes[1].H]
                      ELSE out[k] = bid

C21_Witness ==
  /\ call.pc = "done"
  /\ Len(call.bids) = 2
  /\ call.bids[1].AdUnitCode = "u2"
  /\ call.bids[1].CreativeMediaType = "banner"
  /\ call.bids[1].Width = 0
  /\ call.bids[2].AdUnitCode = "u1"
  /\ call.bids[2].BidID = "b1"
  /\ call.bids[2].Width = 0
  /\ call.bids[2].Height = 2
  /\ Len(call.bidder.AdUnits) = 3
  /\ call.bidder.AdUnits[2].Code = "u2"
  /\ Len(call.bidder.AdUnits[2].Sizes) = 2
  /\ Len(call.result) = 1
  /\ call.result[1].Width = 5
  /\ call.result[1].Height = 4

\* the task of bidder i has run checkForValidBidSize on the list of its call
Reconciled(i) == CallSucceeded(i) /\ ~plan[i].list.isNil

\* the handler has begun the cache step or the targeting keys
PostProcessingBegun ==
  \/ cache.puts > 0
  \/ hpc \in {"sort", "encode"}
  \/ hpc = "done" /\ Admitted
  \/ view # EmptyMap
  \/ \E j \in 1..Len(bids) : bids[j].CacheID # "" \/ bids[j].AdServerTargeting # EmptyMap

TargetingBegun ==
  \/ view # EmptyMap
  \/ \E j \in 1..Len(bids) : bids[j].AdServerTargeting # EmptyMap

AllReceived ==
  /\ idx = Len(bidders) + 1
  /\ received = sentBids
  /\ \A i \in DOMAIN tasks : tasks[i].pc \in {"none", "done"}

\* C22 as stated: size reconciliation, cache population and the targeting keys
\* begin only when the handler has received all sentBids results, and no bidder
\* task is running then.
C22_PipelineAfterDrain ==
  ((\E i \in DOMAIN tasks : Reconciled(i)) \/ PostProcessingBegun) => AllReceived

\* C22 as amended: the size reconciliation of a bidder's bids is done by the
\* bidder's own task before its send, so a list a task sends or has sent after a
\* call that succeeded is reconciled; cache population and the targeting keys
\* begin only when the handler has received all sentBids results and no task is
\* running, the targeting keys after the cache population; and with cacheMarkup =
\* 1 and sortBids = 1 every hb_cache_id and hb_cache_id_<bidderCode> value of a
\* bid is the id the cache gave the object of that bid.
C22_CacheAndTargetingAfterDrain ==
  /\ \A i \in DOMAIN tasks :
       Reconciled(i) =>
         /\ bidders[i].NumBids = Len(tasks[i].bid_list.elems)
         /\ \A k \in 1..Len(tasks[i].bid_list.elems) :
              LET bid == tasks[i].bid_list.elems[k]
                  origin == Origin(bid, bidders[i].AdUnits)
              IN Sizeless(bid) =>
                   /\ origin # 0
                   /\ bidders[i].AdUnits[origin].Sizes = <<Size(bid.Width, bid.Height)>>
  /\ PostProcessingBegun => AllReceived
  /\ (TargetingBegun /\ pbs_req.CacheMarkup = 1) =>
       /\ cache.puts = 1
       /\ err = ""
       /\ \A j \in 1..Len(bids) : bids[j].CacheID # ""
  /\ (Responded /\ pbs_req.CacheMarkup = 1 /\ pbs_req.SortBids = 1) =>
       \A j \in 1..Len(w[1].Bids) :
         LET bid == w[1].Bids[j]
             kv == bid.AdServerTargeting
         IN /\ bid.CacheID = cobjs[j].UUID
            /\ \A k \in DOMAIN kv :
                 k \in {"hb_cache_id", "hb_cache_id_" \o bid.BidderCode} =>
                   kv[k] = bid.CacheID

C22_Witness ==
  /\ Responded
  /\ pbs_req.CacheMarkup = 1
  /\ pbs_req.SortBids = 1
  /\ Len(w[1].Bids) = 2
  /\ \A j \in 1..2 :
       /\ w[1].Bids[j].AdUnitCode = "u1"
       /\ w[1].Bids[j].Width = 3
       /\ ("hb_cache_id_" \o w[1].Bids[j].BidderCode) \in DOMAIN w[1].Bids[j].AdServerTargeting
  /\ w[1].Bids[1].CacheID = "uuid-2"
  /\ w[1].Bids[1].AdServerTargeting["hb_cache_id_" \o w[1].Bids[1].BidderCode] = "uuid-2"
  /\ \E j \in 1..2 : "hb_cache_id" \in DOMAIN w[1].Bids[j].AdServerTargeting

\* C23 as stated: two runs of sortBidsAddKeywordsMobile on the same bids, price
\* granularity and maxKeyLength give every bid the same adServerTargeting,
\* bids of equal price in one ad unit included, whatever else differs.
C23_TargetingDeterministic ==
  (call.pc = "done" /\ Len(call.runs) = 2) =>
    \A j \in 1..Len(call.bids) :
      call.runs[1][j].AdServerTargeting = call.runs[2][j].AdServerTargeting

\* C24: with every adapter call returning, every auction gets to the return of
\* its handler with exactly one body written; and whenever the handler has
\* returned, after a response or after a failed cache write, it has written one
\* body and every dispatched task has sent its result and ended: none is left
\* at its send on ch.
C24_HandlerReturnsAndNoTaskLeft ==
  /\ <>(hpc = "done" /\ Len(w) = 1)
  /\ [](hpc = "done" =>
          /\ Len(w) = 1
          /\ received = sentBids
          /\ \A i \in DOMAIN tasks : tasks[i].pc \in {"none", "done"})

C24_Witness ==
  /\ CacheFailed
  /\ hpc = "done"
  /\ sentBids = 2
  /\ \A i \in 1..2 : tasks[i].pc = "done"
  /\ plan[1].kind = "timeout"
  /\ Len(bids) = 1
  /\ bids[1].BidderCode = bidders[2].BidderCode
  /\ Len(w) = 1

====
